---- MODULE Spec2Model ----
(***************************************************************************)
(* Model of the phone-usage event detection core of habit-exposer:         *)
(* ProximityAnalyzer (src/src/core/proximity_analyzer.py), driven one      *)
(* analyze() call per processed frame, together with the parts around it:  *)
(* the main loop of HabitExposerApp (src/src/main.py), the control         *)
(* gestures of GestureDetector (src/src/core/gesture_detector.py) and the  *)
(* event table of DatabaseManager (src/src/storage/database.py).           *)
(*                                                                         *)
(* Time is counted in whole clock ticks.  datetime.now() is read once per  *)
(* analyze() call; the clock is taken to be non-decreasing between calls.  *)
(* A PhoneUsageEvent is held by the tracker (active_event) and, during the  *)
(* call that creates it, handed to the caller (ret); once the tracker has   *)
(* dropped it no code can reach it, so only the reachable object is kept.   *)
(***************************************************************************)
EXTENDS Integers, Sequences, FiniteSets, TLC

\* ---- bounds of the model ----
MaxN == 3
MaxCooldown == 2
MaxTime == 3
MaxFrameCount == 3
MaxEvents == 2
MaxCoord == 3

\* how far the clock may advance between two analyze() calls
ClockSteps == {0, 1}

VARIABLES
    temporal_frames,    \* self.temporal_frames
    cooldown_seconds,   \* self.cooldown_seconds
    detection_history,  \* self.detection_history, deque(maxlen=temporal_frames)
    active_event,       \* self.active_event, NoEvent = None
    last_event_time,    \* self.last_event_time, NoTime = None
    next_uuid,          \* the identifier the next uuid.uuid4() call returns
    now,                \* the wall clock read by datetime.now()
    detections,         \* the detections passed to the latest analyze() call
    ret,                \* what the latest analyze() call returned, NoEvent = None
    run_true,           \* history: consecutive latest calls that found an overlap (capped at N)
    run_false,          \* history: consecutive latest calls that found none (capped at N)
    n_started,          \* history: number of calls that returned an event
    n_ended,            \* history: number of calls that ended an event
    calls,              \* history: parity of the number of analyze() calls
    n_calls,            \* history: number of analyze() calls made (capped at N)
    raised,             \* whether an analyze() call ended in an exception
    frame_skip,         \* config.detection.frame_skip
    save_enabled,       \* config.screenshot.save_enabled
    monitoring_paused,  \* HabitExposerApp.monitoring_paused
    loop_frame_count,   \* run()'s frame_count, kept modulo frame_skip
    db_rows,            \* the rows of the events table
    n_save_screenshot,  \* history: number of save_screenshot calls
    n_add_event,        \* history: number of add_event calls
    api_response,       \* what the latest /events/recent request returned
    thread,             \* history: the thread that took the latest step
    bbox1, bbox2,       \* arguments of a stand-alone _boxes_overlap call
    overlap,            \* its result
    checked,            \* whether that call has been made
    sustained,          \* history: from here on every frame fed holds an overlap
    since_start,        \* history: analyze() calls since the one that created the latest event (capped at N)
    since_end,          \* history: analyze() calls since the one that ended the latest event (capped at N)
    iteration,          \* history: how the latest loop iteration went
    last_gesture,       \* what the latest detect_control_gesture call returned
    good_reads,         \* history: frames read since the latest processed one
    last_gesture_time,  \* GestureDetector.last_gesture_time
    recognised,         \* history: whether the latest detect_control_gesture call ran the recogniser
    recognition,        \* what the recogniser sees in the frame of the latest call
    last_control,       \* history: time of the latest call that returned "start" or "stop"
    add_ok,             \* what the latest stand-alone add_event call returned, as text
    add_arg             \* the event that call was given

vars == <<temporal_frames, cooldown_seconds, detection_history, active_event,
          last_event_time, next_uuid, now, detections, ret, run_true, run_false,
          n_started, n_ended, calls, n_calls, raised,
          frame_skip, save_enabled, monitoring_paused, loop_frame_count, db_rows,
          n_save_screenshot, n_add_event, api_response, thread,
          bbox1, bbox2, overlap, checked,
          sustained, since_start, since_end, iteration, last_gesture, good_reads,
          last_gesture_time, recognised, recognition, last_control, add_ok, add_arg>>

trackerVars == <<temporal_frames, cooldown_seconds, detection_history, active_event,
                 last_event_time, next_uuid, now, detections, ret, run_true, run_false,
                 n_started, n_ended, calls, n_calls, raised>>

boxVars == <<bbox1, bbox2, overlap, checked>>

appVars == <<frame_skip, save_enabled, monitoring_paused, loop_frame_count, db_rows,
             n_save_screenshot, n_add_event, api_response, thread>>

spacingVars == <<sustained, since_start, since_end>>

loopVars == <<iteration, last_gesture, good_reads>>

gestureVars == <<last_gesture_time, recognised, recognition, last_control>>

dbVars == <<add_ok, add_arg>>

\* what the runs of the analyzer, of _boxes_overlap and of the plain
\* application loop leave alone
extraVars == <<sustained, since_start, since_end, iteration, last_gesture, good_reads,
               last_gesture_time, recognised, recognition, last_control, add_ok, add_arg>>

\* the analyzer's own fields and what follows from them, without the clock
analyzerVars == <<temporal_frames, cooldown_seconds, detection_history, active_event,
                  last_event_time, next_uuid, detections, ret, run_true, run_false,
                  n_started, n_ended, calls, n_calls, raised>>

\* Python's None for a timestamp and for a PhoneUsageEvent reference
NoTime == -1
NoEvent ==
    [event_id |-> 0, start_time |-> NoTime, person_bbox |-> <<>>,
     phone_bbox |-> <<>>, frame_count |-> 0]

\* ---- bounding boxes ----------------------------------------------------

\* all boxes [x1, y1, x2, y2] on the grid, degenerate ones included
GridBoxes ==
    {<<x1, y1, x2, y2>> : x1 \in 0..MaxCoord, y1 \in 0..MaxCoord,
                          x2 \in 0..MaxCoord, y2 \in 0..MaxCoord}

AllBoxes == {b \in GridBoxes : b[1] <= b[3] /\ b[2] <= b[4]}

\* spec.md section 3: x1 < x2, y1 < y2
ProperBox(b) == b[1] < b[3] /\ b[2] < b[4]

\* a bug: touching edges counted as overlap
BoxesOverlapTouching(bbox1_, bbox2_) ==
    LET x_overlap == bbox1_[1] <= bbox2_[3] /\ bbox1_[3] >= bbox2_[1]
        y_overlap == bbox1_[2] <= bbox2_[4] /\ bbox1_[4] >= bbox2_[2]
    IN  x_overlap /\ y_overlap

\* ProximityAnalyzer._boxes_overlap
BoxesOverlap(bbox1_, bbox2_) ==
    LET x1_1 == bbox1_[1]
        y1_1 == bbox1_[2]
        x2_1 == bbox1_[3]
        y2_1 == bbox1_[4]
        x1_2 == bbox2_[1]
        y1_2 == bbox2_[2]
        x2_2 == bbox2_[3]
        y2_2 == bbox2_[4]
        x_overlap == x1_1 < x2_2 /\ x2_1 > x1_2
        y_overlap == y1_1 < y2_2 /\ y2_1 > y1_2
    IN  x_overlap /\ y_overlap

\* numpy's ndarray.tolist(): a list of the same length with the same numbers
ToList(bbox) == [i \in 1..Len(bbox) |-> bbox[i]]

\* ---- detection frames fed to analyze() ---------------------------------

\* a detection as PhoneDetector.detect builds it: the box and the confidence
\* (in percent); the derived center is not read by the analyzer
PersonA == [bbox |-> <<0, 0, 2, 2>>, confidence |-> 60]
PersonB == [bbox |-> <<2, 0, 3, 2>>, confidence |-> 90]
PhoneX  == [bbox |-> <<1, 1, 3, 3>>, confidence |-> 60]   \* overlaps PersonA and PersonB
PhoneZ  == [bbox |-> <<2, 1, 3, 2>>, confidence |-> 90]   \* touches PersonA at an edge, inside PersonB
PhoneD  == [bbox |-> <<1, 1, 1, 2>>, confidence |-> 60]   \* zero width, inside PersonA

Frames ==
    { [persons |-> <<>>,                 phones |-> <<>>],
      [persons |-> <<>>,                 phones |-> <<PhoneX>>],
      [persons |-> <<PersonA>>,          phones |-> <<>>],
      [persons |-> <<PersonA>>,          phones |-> <<PhoneZ>>],
      [persons |-> <<PersonB>>,          phones |-> <<PhoneZ>>],
      [persons |-> <<PersonA, PersonB>>, phones |-> <<PhoneZ, PhoneX>>] }

\* frames in which a detection is a degenerate, zero-area box
DegenerateFrames ==
    { [persons |-> <<PersonA>>,          phones |-> <<PhoneD>>] }

AnyFrames == Frames \cup DegenerateFrames

\* ---- analyze(), lines 40-51: the person-major search --------------------

\* a bug: only the first person and the first phone are compared
OverlapPairsFirstOnly(persons, phones) ==
    {p \in {<<1, 1>>} :
        BoxesOverlap(persons[p[1]].bbox, phones[p[2]].bbox)}

OverlapPairs(persons, phones) ==
    {p \in (1..Len(persons)) \X (1..Len(phones)) :
        BoxesOverlap(persons[p[1]].bbox, phones[p[2]].bbox)}

\* a bug: the most confident overlapping pair is taken, not the first
BestPairByConfidence(persons, phones) ==
    LET S == OverlapPairs(persons, phones)
        conf(c) == persons[c[1]].confidence + phones[c[2]].confidence
        p == CHOOSE c \in S : \A q \in S : conf(c) >= conf(q)
    IN  [person |-> persons[p[1]], phone |-> phones[p[2]]]

\* the pair at which the nested loops break: first in person-major order
BestPair(persons, phones) ==
    LET S == OverlapPairs(persons, phones)
        p == CHOOSE c \in S : \A q \in S :
                 c[1] < q[1] \/ (c[1] = q[1] /\ c[2] <= q[2])
    IN  [person |-> persons[p[1]], phone |-> phones[p[2]]]

\* best_pair = None (line 42)
NoPair == [person |-> [bbox |-> <<>>, confidence |-> 0],
           phone  |-> [bbox |-> <<>>, confidence |-> 0]]

\* overlap_found and best_pair after the loops of lines 41-51
LoopResult(persons, phones) ==
    IF OverlapPairs(persons, phones) # {}
    THEN [overlap_found |-> TRUE,  best_pair |-> BestPair(persons, phones)]
    ELSE [overlap_found |-> FALSE, best_pair |-> NoPair]

\* ---- the deque and the temporal-consistency test -----------------------

\* a bug: a plain list, nothing is evicted
DequeAppendUnbounded(h, v, n) == Append(h, v)

\* deque(maxlen=n).append(v)
DequeAppend(h, v, n) ==
    IF Len(h) < n THEN Append(h, v) ELSE Append(Tail(h), v)

AllTrue(h) == \A i \in 1..Len(h) : h[i]
AnyTrue(h) == \E i \in 1..Len(h) : h[i]

\* a bug: the length check is missing
IsTemporallyConsistentNoLen(h, n) == AllTrue(h)

\* a bug: only the latest outcome is looked at
IsTemporallyConsistentLatestOnly(h, n) ==
    Len(h) > 0 /\ h[Len(h)]

\* ProximityAnalyzer._is_temporally_consistent
IsTemporallyConsistent(h, n) ==
    IF Len(h) < n THEN FALSE ELSE AllTrue(h)

\* ---- the tracker ---------------------------------------------------------
\* The tracker operators take and return the analyzer's fields as a record
\* s = [detection_history, active_event, last_event_time, next_uuid, result].

\* a bug: the comparison is inverted
InCooldownInverted(last, current_time, cooldown) ==
    last # NoTime /\ (current_time - last) > cooldown

\* a bug: '<=' where the code has '<'
InCooldownInclusive(last, current_time, cooldown) ==
    last # NoTime /\ (current_time - last) <= cooldown

\* a bug: only half of the cooldown is waited for
InCooldownHalved(last, current_time, cooldown) ==
    last # NoTime /\ (current_time - last) * 2 < cooldown

\* _handle_confirmed_detection, lines 111-115
InCooldown(last, current_time, cooldown) ==
    last # NoTime /\ (current_time - last) < cooldown

\* a bug: frame_count=1 is left out, so the dataclass default 0 applies
NewEventDefaultCount(uuid, pair, current_time) ==
    [event_id    |-> uuid,
     start_time  |-> current_time,
     person_bbox |-> ToList(pair.person.bbox),
     phone_bbox  |-> ToList(pair.phone.bbox),
     frame_count |-> 0]

\* PhoneUsageEvent(...), lines 119-125
NewEvent(uuid, pair, current_time) ==
    [event_id    |-> uuid,
     start_time  |-> current_time,
     person_bbox |-> ToList(pair.person.bbox),
     phone_bbox  |-> ToList(pair.phone.bbox),
     frame_count |-> 1]

\* a bug: the updated event is returned again on every confirmed frame
HandleConfirmedDetectionRenotify(s, pair, current_time, cooldown) ==
    IF InCooldown(s.last_event_time, current_time, cooldown)
    THEN [s EXCEPT !.result = NoEvent]
    ELSE IF s.active_event = NoEvent
         THEN LET e == NewEvent(s.next_uuid, pair, current_time)
              IN  [s EXCEPT !.active_event = e,
                            !.next_uuid = @ + 1,
                            !.result = e]
         ELSE LET e == [s.active_event EXCEPT !.frame_count = @ + 1]
              IN  [s EXCEPT !.active_event = e, !.result = e]

\* a bug: the 'active_event is None' test is missing, every confirmed frame
\* outside the cooldown starts a new event
HandleConfirmedDetectionAlwaysCreate(s, pair, current_time, cooldown) ==
    IF InCooldown(s.last_event_time, current_time, cooldown)
    THEN [s EXCEPT !.result = NoEvent]
    ELSE LET e == NewEvent(s.next_uuid, pair, current_time)
         IN  [s EXCEPT !.active_event = e,
                       !.next_uuid = @ + 1,
                       !.result = e]

\* a bug: the update branch also overwrites the boxes with the current pair
HandleConfirmedDetectionRefreshBoxes(s, pair, current_time, cooldown) ==
    IF InCooldown(s.last_event_time, current_time, cooldown)
    THEN [s EXCEPT !.result = NoEvent]
    ELSE IF s.active_event = NoEvent
         THEN LET e == NewEvent(s.next_uuid, pair, current_time)
              IN  [s EXCEPT !.active_event = e,
                            !.next_uuid = @ + 1,
                            !.result = e]
         ELSE [s EXCEPT !.active_event.frame_count = @ + 1,
                        !.active_event.person_bbox = ToList(pair.person.bbox),
                        !.active_event.phone_bbox = ToList(pair.phone.bbox),
                        !.result = NoEvent]

\* a bug: the cooldown is tested only while an event is active
HandleConfirmedDetectionCooldownOnlyWhenActive(s, pair, current_time, cooldown) ==
    IF s.active_event = NoEvent
    THEN LET e == NewEvent(s.next_uuid, pair, current_time)
         IN  [s EXCEPT !.active_event = e,
                       !.next_uuid = @ + 1,
                       !.result = e]
    ELSE IF InCooldown(s.last_event_time, current_time, cooldown)
         THEN [s EXCEPT !.result = NoEvent]
         ELSE [s EXCEPT !.active_event.frame_count = @ + 1,
                        !.result = NoEvent]

\* a bug: creating an event also stamps last_event_time
HandleConfirmedDetectionStampsStart(s, pair, current_time, cooldown) ==
    IF pair = NoPair
    THEN [s EXCEPT !.raised = TRUE, !.result = NoEvent]
    ELSE IF InCooldown(s.last_event_time, current_time, cooldown)
    THEN [s EXCEPT !.result = NoEvent]
    ELSE IF s.active_event = NoEvent
         THEN LET e == NewEvent(s.next_uuid, pair, current_time)
              IN  [s EXCEPT !.active_event = e,
                            !.next_uuid = @ + 1,
                            !.last_event_time = current_time,
                            !.result = e]
         ELSE [s EXCEPT !.active_event.frame_count = @ + 1,
                        !.result = NoEvent]

\* a bug: a call suppressed by the cooldown restarts the cooldown
HandleConfirmedDetectionRestartsCooldown(s, pair, current_time, cooldown) ==
    IF pair = NoPair
    THEN [s EXCEPT !.raised = TRUE, !.result = NoEvent]
    ELSE IF InCooldown(s.last_event_time, current_time, cooldown)
    THEN [s EXCEPT !.last_event_time = current_time, !.result = NoEvent]
    ELSE IF s.active_event = NoEvent
         THEN LET e == NewEvent(s.next_uuid, pair, current_time)
              IN  [s EXCEPT !.active_event = e,
                            !.next_uuid = @ + 1,
                            !.result = e]
         ELSE [s EXCEPT !.active_event.frame_count = @ + 1,
                        !.result = NoEvent]

\* ProximityAnalyzer._handle_confirmed_detection; 'person, phone = pair'
\* (line 108) raises TypeError when pair is None
HandleConfirmedDetection(s, pair, current_time, cooldown) ==
    IF pair = NoPair
    THEN [s EXCEPT !.raised = TRUE, !.result = NoEvent]
    ELSE IF InCooldown(s.last_event_time, current_time, cooldown)
    THEN [s EXCEPT !.result = NoEvent]
    ELSE IF s.active_event = NoEvent
         THEN LET e == NewEvent(s.next_uuid, pair, current_time)
              IN  [s EXCEPT !.active_event = e,
                            !.next_uuid = @ + 1,
                            !.result = e]
         ELSE [s EXCEPT !.active_event.frame_count = @ + 1,
                        !.result = NoEvent]

\* a bug: 'not all' where the code has 'not any', one miss ends the event
CheckEventEndOnFirstMiss(s, current_time) ==
    IF s.active_event # NoEvent /\ ~AllTrue(s.detection_history)
    THEN [s EXCEPT !.last_event_time = current_time, !.active_event = NoEvent]
    ELSE s

\* a bug: the 'self.active_event and' test is missing
CheckEventEndNoActiveTest(s, current_time) ==
    IF ~AnyTrue(s.detection_history)
    THEN [s EXCEPT !.last_event_time = current_time, !.active_event = NoEvent]
    ELSE s

\* ProximityAnalyzer._check_event_end
CheckEventEnd(s, current_time) ==
    IF s.active_event # NoEvent /\ ~AnyTrue(s.detection_history)
    THEN [s EXCEPT !.last_event_time = current_time, !.active_event = NoEvent]
    ELSE s

\* a bug: the early return records nothing
NoDetectionBranchNoPush(s, n, current_time) ==
    [s EXCEPT !.result = NoEvent]

\* analyze(), lines 35-38: no person or no phone
NoDetectionBranch(s, n, current_time) ==
    LET s1 == [s EXCEPT !.detection_history = DequeAppend(@, FALSE, n)]
    IN  [CheckEventEnd(s1, current_time) EXCEPT !.result = NoEvent]

\* a bug: an active event is updated on every overlap frame, consistent or not
OverlapBranchActiveAlwaysCounts(s, pair, n, current_time, cooldown) ==
    LET s1 == [s EXCEPT !.detection_history = DequeAppend(@, TRUE, n)]
    IN  IF IsTemporallyConsistent(s1.detection_history, n) \/ s1.active_event # NoEvent
        THEN HandleConfirmedDetection(s1, pair, current_time, cooldown)
        ELSE [s1 EXCEPT !.result = NoEvent]

\* analyze(), lines 53-58 and 63: an overlapping pair was found
OverlapBranch(s, pair, n, current_time, cooldown) ==
    LET s1 == [s EXCEPT !.detection_history = DequeAppend(@, TRUE, n)]
    IN  IF IsTemporallyConsistent(s1.detection_history, n)
        THEN HandleConfirmedDetection(s1, pair, current_time, cooldown)
        ELSE [s1 EXCEPT !.result = NoEvent]

\* analyze(), lines 59-63: persons and phones present, no pair overlaps
NoOverlapBranch(s, n, current_time) ==
    LET s1 == [s EXCEPT !.detection_history = DequeAppend(@, FALSE, n)]
    IN  [CheckEventEnd(s1, current_time) EXCEPT !.result = NoEvent]

\* a bug: the 'if overlap_found' test is missing, best_pair may still be None
AnalyzeResultNoFoundTest(s, d, n, current_time, cooldown) ==
    IF Len(d.persons) = 0 \/ Len(d.phones) = 0
    THEN NoDetectionBranch(s, n, current_time)
    ELSE OverlapBranch(s, LoopResult(d.persons, d.phones).best_pair,
                       n, current_time, cooldown)

\* ProximityAnalyzer.analyze
AnalyzeResult(s, d, n, current_time, cooldown) ==
    IF Len(d.persons) = 0 \/ Len(d.phones) = 0
    THEN NoDetectionBranch(s, n, current_time)
    ELSE LET l == LoopResult(d.persons, d.phones)
         IN  IF l.overlap_found
             THEN OverlapBranch(s, l.best_pair, n, current_time, cooldown)
             ELSE NoOverlapBranch(s, n, current_time)

Self ==
    [detection_history |-> detection_history,
     active_event      |-> active_event,
     last_event_time   |-> last_event_time,
     next_uuid         |-> next_uuid,
     raised            |-> FALSE,
     result            |-> NoEvent]

Min(a, b) == IF a < b THEN a ELSE b

\* ProximityAnalyzer.__init__(temporal_frames=n, cooldown_seconds=cooldown)
TrackerInit(n, cooldown) ==
    /\ temporal_frames = n
    /\ cooldown_seconds = cooldown
    /\ detection_history = <<>>
    /\ active_event = NoEvent
    /\ last_event_time = NoTime
    /\ next_uuid = 1
    /\ now = 0
    /\ detections = [persons |-> <<>>, phones |-> <<>>]
    /\ ret = NoEvent
    /\ run_true = 0
    /\ run_false = 0
    /\ n_started = 0
    /\ n_ended = 0
    /\ calls = 0
    /\ n_calls = 0
    /\ raised = FALSE

BoxesIdle ==
    /\ bbox1 = <<0, 0, 0, 0>>
    /\ bbox2 = <<0, 0, 0, 0>>
    /\ overlap = FALSE
    /\ checked = FALSE

\* a recognition result without hands (result.gestures is empty)
NoHand == [hands |-> 0, hand_label |-> "", gesture_name |-> "", score |-> 0]

SpacingIdle ==
    /\ sustained = FALSE
    /\ since_start = 0
    /\ since_end = 0

LoopIdle ==
    /\ iteration = "none"
    /\ last_gesture = "none"
    /\ good_reads = 0

\* GestureDetector.__init__ (gesture_detector.py 32): last_gesture_time = 0
GestureIdle ==
    /\ last_gesture_time = 0
    /\ recognised = FALSE
    /\ recognition = NoHand
    /\ last_control = NoTime

DbIdle == add_ok = "none" /\ add_arg = NoEvent

ExtrasIdle == SpacingIdle /\ LoopIdle /\ GestureIdle /\ DbIdle

\* HabitExposerApp.__init__ (main.py 61-62) with frame_skip = skip and
\* save_enabled = save, and the events table before the first insert
AppInit(skip, save) ==
    /\ frame_skip = skip
    /\ save_enabled = save
    /\ monitoring_paused = TRUE
    /\ loop_frame_count = 0
    /\ db_rows = <<>>
    /\ n_save_screenshot = 0
    /\ n_add_event = 0
    /\ api_response = {}
    /\ thread = "main"

\* a freshly constructed analyzer, for each configuration
Init ==
    /\ \E n \in 1..MaxN, cooldown \in 0..MaxCooldown : TrackerInit(n, cooldown)
    /\ AppInit(1, TRUE)
    /\ BoxesIdle
    /\ ExtrasIdle

\* whether some (person, phone) pair of the frame has an intersection of
\* positive area, computed from the rectangles themselves
Area(b1, b2) ==
    LET w == Min(b1[3], b2[3]) - (IF b1[1] > b2[1] THEN b1[1] ELSE b2[1])
        h == Min(b1[4], b2[4]) - (IF b1[2] > b2[2] THEN b1[2] ELSE b2[2])
    IN  IF w > 0 /\ h > 0 THEN w * h ELSE 0

FrameHasOverlap(d) ==
    \E i \in 1..Len(d.persons), j \in 1..Len(d.phones) :
        Area(d.persons[i].bbox, d.phones[j].bbox) > 0

\* one analyze(d) call; the clock has advanced by dt since the previous call
Analyze(d, dt) ==
    LET t == now + dt
        found == FrameHasOverlap(d)
    IN  /\ ~raised
        /\ t <= MaxTime
        /\ \E r \in {AnalyzeResult(Self, d, temporal_frames, t, cooldown_seconds)} :
               /\ r.next_uuid <= MaxEvents + 1
               /\ r.active_event.frame_count <= MaxFrameCount
               /\ now' = t
               /\ detections' = d
               /\ detection_history' = r.detection_history
               /\ active_event' = r.active_event
               /\ last_event_time' = r.last_event_time
               /\ next_uuid' = r.next_uuid
               /\ ret' = r.result
               /\ run_true' = IF found THEN Min(run_true + 1, temporal_frames) ELSE 0
               /\ run_false' = IF found THEN 0 ELSE Min(run_false + 1, temporal_frames)
               /\ n_started' = IF r.result # NoEvent THEN n_started + 1 ELSE n_started
               /\ n_ended' = IF active_event # NoEvent /\ r.active_event = NoEvent
                             THEN n_ended + 1 ELSE n_ended
               /\ calls' = 1 - calls
               /\ n_calls' = Min(n_calls + 1, temporal_frames)
               /\ raised' = r.raised
               /\ UNCHANGED <<temporal_frames, cooldown_seconds>>
               /\ UNCHANGED boxVars

Next ==
    \E d \in Frames, dt \in ClockSteps :
        Analyze(d, dt) /\ UNCHANGED appVars /\ UNCHANGED extraVars

Spec == Init /\ [][Next]_vars

\* the same analyzer fed with degenerate boxes as well
NextAny ==
    \E d \in AnyFrames, dt \in ClockSteps :
        Analyze(d, dt) /\ UNCHANGED appVars /\ UNCHANGED extraVars

\* windows of one and two frames, without a cooldown and with the longest one
InitAny ==
    /\ \E n \in 1..2, cooldown \in {0, MaxCooldown} : TrackerInit(n, cooldown)
    /\ AppInit(1, TRUE)
    /\ BoxesIdle
    /\ ExtrasIdle

SpecAny == InitAny /\ [][NextAny]_vars

\* ---- _boxes_overlap on its own ------------------------------------------

InitBoxes ==
    /\ TrackerInit(1, 0)
    /\ AppInit(1, TRUE)
    /\ bbox1 \in AllBoxes
    /\ bbox2 \in AllBoxes
    /\ overlap = FALSE
    /\ checked = FALSE
    /\ ExtrasIdle

\* self._boxes_overlap(bbox1, bbox2)
CallBoxesOverlap ==
    /\ ~checked
    /\ overlap' = BoxesOverlap(bbox1, bbox2)
    /\ checked' = TRUE
    /\ UNCHANGED <<bbox1, bbox2>>
    /\ UNCHANGED trackerVars
    /\ UNCHANGED appVars
    /\ UNCHANGED extraVars

NextBoxes == CallBoxesOverlap

SpecBoxes == InitBoxes /\ [][NextBoxes]_vars

\* ---- the application: HabitExposerApp.run and the API thread ------------

\* the frames the detector reports in the application runs: nothing, a
\* person and a phone apart, a person holding a phone
AppFrames ==
    { [persons |-> <<>>,        phones |-> <<>>],
      [persons |-> <<PersonA>>, phones |-> <<PhoneZ>>],
      [persons |-> <<PersonB>>, phones |-> <<PhoneZ>>] }

\* what detect_control_gesture returns: None, "start" or "stop"
Gestures == {"none", "start", "stop"}

\* a bug: either gesture toggles the monitoring state
AfterGestureToggles(paused, gesture) ==
    IF gesture = "none" THEN paused ELSE ~paused

\* main.py 136-142
AfterGesture(paused, gesture) ==
    IF gesture = "start" THEN FALSE
    ELSE IF gesture = "stop" THEN TRUE
    ELSE paused

\* json.dumps of a list of numbers: the text of that list
JsonDumps(v) == [json |-> v]

\* the empty path "" that save_screenshot returns when saving is disabled
NoPath == [time_str |-> NoTime, event_id_short |-> 0]

\* ScreenshotManager.save_screenshot: the path of the image written, made of
\* the event's start time and identifier (_generate_filename)
SaveScreenshot(enabled, event) ==
    IF ~enabled
    THEN NoPath
    ELSE [time_str |-> event.start_time, event_id_short |-> event.event_id]

\* a bug: a duplicate event_uuid overwrites the stored row
AddEventReplaces(rows, event, screenshot_path) ==
    LET row(i) == [id              |-> i,
                   event_uuid      |-> event.event_id,
                   timestamp       |-> event.start_time,
                   screenshot_path |-> screenshot_path,
                   person_bbox     |-> JsonDumps(event.person_bbox),
                   phone_bbox      |-> JsonDumps(event.phone_bbox),
                   frame_count     |-> event.frame_count]
    IN  IF \E i \in 1..Len(rows) : rows[i].event_uuid = event.event_id
        THEN [rows |-> [i \in 1..Len(rows) |->
                           IF rows[i].event_uuid = event.event_id THEN row(i) ELSE rows[i]],
              ok |-> TRUE]
        ELSE [rows |-> Append(rows, row(Len(rows) + 1)), ok |-> TRUE]

\* DatabaseManager.add_event: event_uuid is unique, a duplicate makes the
\* commit fail, the session is rolled back and False is returned
AddEvent(rows, event, screenshot_path) ==
    IF \E i \in 1..Len(rows) : rows[i].event_uuid = event.event_id
    THEN [rows |-> rows, ok |-> FALSE]
    ELSE [rows |-> Append(rows,
                     [id              |-> Len(rows) + 1,
                      event_uuid      |-> event.event_id,
                      timestamp       |-> event.start_time,
                      screenshot_path |-> screenshot_path,
                      person_bbox     |-> JsonDumps(event.person_bbox),
                      phone_bbox      |-> JsonDumps(event.phone_bbox),
                      frame_count     |-> event.frame_count]),
          ok |-> TRUE]

\* a bug: the loop looks at the analyzer's active event, not at what
\* analyze() returned
EventToPersistActive(result, active) == active

\* main.py 156-159: 'event = analyze(detections)', 'if event:'
EventToPersist(result, active) == result

\* main.py 159-164
Persist(event) ==
    IF event # NoEvent
    THEN /\ n_save_screenshot' = n_save_screenshot + 1
         /\ db_rows' = AddEvent(db_rows, event, SaveScreenshot(save_enabled, event)).rows
         /\ n_add_event' = n_add_event + 1
    ELSE UNCHANGED <<db_rows, n_save_screenshot, n_add_event>>

\* the clock moves on during a loop iteration that does not reach analyze()
Tick(dt) ==
    /\ now + dt <= MaxTime
    /\ now' = now + dt

\* a bug: a failed read advances the skip counter
FailedReadCounts(dt) ==
    /\ ~raised
    /\ Tick(dt)
    /\ thread' = "main"
    /\ loop_frame_count' = (loop_frame_count + 1) % frame_skip
    /\ UNCHANGED analyzerVars
    /\ UNCHANGED <<frame_skip, save_enabled, monitoring_paused, db_rows,
                   n_save_screenshot, n_add_event, api_response>>
    /\ UNCHANGED boxVars

\* main.py 125-128: read_frame() returned None
FailedRead(dt) ==
    /\ ~raised
    /\ Tick(dt)
    /\ thread' = "main"
    /\ UNCHANGED analyzerVars
    /\ UNCHANGED <<frame_skip, save_enabled, monitoring_paused, loop_frame_count, db_rows,
                   n_save_screenshot, n_add_event, api_response>>
    /\ UNCHANGED boxVars

\* main.py 130-133: a frame that is not the frame_skip-th one
SkippedFrame(dt) ==
    /\ ~raised
    /\ (loop_frame_count + 1) % frame_skip # 0
    /\ loop_frame_count' = (loop_frame_count + 1) % frame_skip
    /\ Tick(dt)
    /\ thread' = "main"
    /\ UNCHANGED analyzerVars
    /\ UNCHANGED <<frame_skip, save_enabled, monitoring_paused, db_rows,
                   n_save_screenshot, n_add_event, api_response>>
    /\ UNCHANGED boxVars

\* a bug: pausing ends the active event and starts the cooldown
PausedFrameEndsEvent(gesture, dt) ==
    /\ ~raised
    /\ (loop_frame_count + 1) % frame_skip = 0
    /\ loop_frame_count' = (loop_frame_count + 1) % frame_skip
    /\ AfterGesture(monitoring_paused, gesture)
    /\ monitoring_paused' = AfterGesture(monitoring_paused, gesture)
    /\ Tick(dt)
    /\ thread' = "main"
    /\ active_event' = NoEvent
    /\ last_event_time' = IF active_event # NoEvent THEN now + dt ELSE last_event_time
    /\ UNCHANGED <<temporal_frames, cooldown_seconds, detection_history, next_uuid,
                   detections, ret, run_true, run_false, n_started, n_ended, calls,
                   n_calls, raised>>
    /\ UNCHANGED <<frame_skip, save_enabled, db_rows, n_save_screenshot, n_add_event, api_response>>
    /\ UNCHANGED boxVars

\* main.py 135-142 and 165-169: a processed frame while monitoring is paused
PausedFrame(gesture, dt) ==
    /\ ~raised
    /\ (loop_frame_count + 1) % frame_skip = 0
    /\ loop_frame_count' = (loop_frame_count + 1) % frame_skip
    /\ AfterGesture(monitoring_paused, gesture)
    /\ monitoring_paused' = AfterGesture(monitoring_paused, gesture)
    /\ Tick(dt)
    /\ thread' = "main"
    /\ UNCHANGED analyzerVars
    /\ UNCHANGED <<frame_skip, save_enabled, db_rows, n_save_screenshot, n_add_event, api_response>>
    /\ UNCHANGED boxVars

\* main.py 135-164: a processed frame while monitoring is active
MonitoredFrame(gesture, d, dt) ==
    /\ (loop_frame_count + 1) % frame_skip = 0
    /\ loop_frame_count' = (loop_frame_count + 1) % frame_skip
    /\ ~AfterGesture(monitoring_paused, gesture)
    /\ monitoring_paused' = AfterGesture(monitoring_paused, gesture)
    /\ Analyze(d, dt)
    /\ Persist(EventToPersist(ret', active_event'))
    /\ thread' = "main"
    /\ UNCHANGED <<frame_skip, save_enabled, api_response>>

\* get_recent_events(limit): the limit latest rows
RecentRows(rows, limit) ==
    LET all == {rows[i] : i \in 1..Len(rows)}
    IN  IF Cardinality(all) <= limit THEN all
        ELSE CHOOSE S \in SUBSET all :
                 /\ Cardinality(S) = limit
                 /\ \A r \in S, q \in all \ S : r.timestamp >= q.timestamp

\* a bug: the handler reaches into the analyzer and reports the live
\* frame_count of the event in progress
ApiRecentEventsLive ==
    /\ api_response' =
           {[event_id    |-> r.event_uuid,
             timestamp   |-> r.timestamp,
             frame_count |-> IF active_event.event_id = r.event_uuid
                             THEN active_event.frame_count ELSE r.frame_count,
             screenshot  |-> r.screenshot_path] : r \in RecentRows(db_rows, 10)}
    /\ thread' = "api"
    /\ UNCHANGED trackerVars
    /\ UNCHANGED <<frame_skip, save_enabled, monitoring_paused, loop_frame_count, db_rows,
                   n_save_screenshot, n_add_event>>
    /\ UNCHANGED boxVars

\* api.py 62-76: GET /events/recent with the default limit, served by the
\* uvicorn thread from its own DatabaseManager
ApiRecentEvents ==
    /\ api_response' =
           {[event_id    |-> r.event_uuid,
             timestamp   |-> r.timestamp,
             frame_count |-> r.frame_count,
             screenshot  |-> r.screenshot_path] : r \in RecentRows(db_rows, 10)}
    /\ thread' = "api"
    /\ UNCHANGED trackerVars
    /\ UNCHANGED <<frame_skip, save_enabled, monitoring_paused, loop_frame_count, db_rows,
                   n_save_screenshot, n_add_event>>
    /\ UNCHANGED boxVars

\* windows of one and two frames, a cooldown of one tick, every second frame
\* processed, screenshots enabled and disabled
InitApp ==
    /\ \E n \in 1..2 : TrackerInit(n, 1)
    /\ \E save \in BOOLEAN : AppInit(2, save)
    /\ BoxesIdle
    /\ ExtrasIdle

NextApp ==
    \/ \E dt \in ClockSteps : FailedRead(dt) /\ UNCHANGED extraVars
    \/ \E dt \in ClockSteps : SkippedFrame(dt) /\ UNCHANGED extraVars
    \/ \E g \in Gestures, dt \in ClockSteps : PausedFrame(g, dt) /\ UNCHANGED extraVars
    \/ \E g \in Gestures, d \in AppFrames, dt \in ClockSteps :
           MonitoredFrame(g, d, dt) /\ UNCHANGED extraVars
    \/ ApiRecentEvents /\ UNCHANGED extraVars

SpecApp == InitApp /\ [][NextApp]_vars

\* ---- sustained overlap ---------------------------------------------------
\* The analyzer is fed arbitrary frames; at some call-free moment with no
\* event active the scene settles: from then on every frame holds an
\* overlapping pair.  The loop keeps calling analyze() and the clock keeps
\* advancing, which is the fairness of SpecSustained.

OverlapFrames == {d \in Frames : OverlapPairs(d.persons, d.phones) # {}}

Max(a, b) == IF a > b THEN a ELSE b

\* an analyze() call before the scene has settled
Feed(d, dt) ==
    /\ ~sustained
    /\ Analyze(d, dt)
    /\ UNCHANGED appVars
    /\ UNCHANGED extraVars

\* the scene settles while no event is active; the bounded clock leaves room
\* for a full window and for the cooldown, and an identifier is left
Settle ==
    /\ ~sustained
    /\ ~raised
    /\ active_event = NoEvent
    /\ now + Max(temporal_frames, cooldown_seconds) <= MaxTime
    /\ next_uuid <= MaxEvents
    /\ sustained' = TRUE
    /\ UNCHANGED trackerVars
    /\ UNCHANGED appVars
    /\ UNCHANGED boxVars
    /\ UNCHANGED <<since_start, since_end>>
    /\ UNCHANGED <<loopVars, gestureVars, dbVars>>

\* an analyze() call on an overlap frame after the scene has settled
FeedOverlap(d, dt) ==
    /\ sustained
    /\ Analyze(d, dt)
    /\ UNCHANGED appVars
    /\ UNCHANGED extraVars

\* such a call after the clock has advanced
Advance == \E d \in OverlapFrames : FeedOverlap(d, 1)

\* windows of one and two frames, without a cooldown and with the longest one
InitSustained ==
    /\ \E n \in 1..2, cooldown \in {0, MaxCooldown} : TrackerInit(n, cooldown)
    /\ AppInit(1, TRUE)
    /\ BoxesIdle
    /\ ExtrasIdle

NextSustained ==
    \/ \E d \in Frames, dt \in ClockSteps : Feed(d, dt)
    \/ Settle
    \/ \E d \in OverlapFrames, dt \in ClockSteps : FeedOverlap(d, dt)

SpecSustained == InitSustained /\ [][NextSustained]_vars /\ WF_vars(Advance)

\* ---- counting the calls between the starts and the ends -----------------

\* an analyze() call, with the calls since the latest start and the latest
\* end counted up
AnalyzeCounted(d, dt) ==
    /\ Analyze(d, dt)
    /\ since_start' = IF ret' # NoEvent THEN 0 ELSE Min(since_start + 1, temporal_frames)
    /\ since_end' = IF active_event # NoEvent /\ active_event' = NoEvent
                    THEN 0 ELSE Min(since_end + 1, temporal_frames)
    /\ UNCHANGED sustained
    /\ UNCHANGED <<loopVars, gestureVars, dbVars>>
    /\ UNCHANGED appVars

InitSpacing ==
    /\ \E n \in 1..MaxN, cooldown \in {0, MaxCooldown} : TrackerInit(n, cooldown)
    /\ AppInit(1, TRUE)
    /\ BoxesIdle
    /\ ExtrasIdle

NextSpacing == \E d \in Frames, dt \in ClockSteps : AnalyzeCounted(d, dt)

SpecSpacing == InitSpacing /\ [][NextSpacing]_vars

\* ---- the loop, iteration by iteration, and its end ----------------------
\* The same loop with each iteration recorded: how it went, what the gesture
\* detector returned, how many frames were read since the latest processed
\* one.  KeyboardInterrupt (or 'q') ends the loop between two iterations and
\* main() runs cleanup().

Running == iteration # "cleanup"

\* a bug: cleanup ends the active event and stores its final frame_count
CleanupFlushesActiveEvent ==
    /\ active_event' = NoEvent
    /\ last_event_time' = IF active_event # NoEvent THEN now ELSE last_event_time
    /\ db_rows' = [i \in 1..Len(db_rows) |->
                      IF db_rows[i].event_uuid = active_event.event_id
                      THEN [db_rows[i] EXCEPT !.frame_count = active_event.frame_count]
                      ELSE db_rows[i]]
    /\ UNCHANGED <<temporal_frames, cooldown_seconds, detection_history, next_uuid,
                   detections, ret, run_true, run_false, n_started, n_ended, calls,
                   n_calls, raised>>
    /\ UNCHANGED <<n_save_screenshot, n_add_event>>

\* HabitExposerApp.cleanup: the camera is released, the session is closed,
\* the windows are destroyed; the analyzer is not looked at
Cleanup ==
    /\ UNCHANGED analyzerVars
    /\ UNCHANGED <<db_rows, n_save_screenshot, n_add_event>>

\* main(): the loop is left and cleanup() runs in the finally clause
Interrupt ==
    /\ Running
    /\ Cleanup
    /\ iteration' = "cleanup"
    /\ thread' = "main"
    /\ UNCHANGED <<now, frame_skip, save_enabled, monitoring_paused, loop_frame_count,
                   api_response>>
    /\ UNCHANGED <<last_gesture, good_reads>>
    /\ UNCHANGED <<spacingVars, gestureVars, dbVars>>
    /\ UNCHANGED boxVars

LoopFailedRead(dt) ==
    /\ Running
    /\ FailedRead(dt)
    /\ iteration' = "failed"
    /\ UNCHANGED <<last_gesture, good_reads>>
    /\ UNCHANGED <<spacingVars, gestureVars, dbVars>>

LoopSkippedFrame(dt) ==
    /\ Running
    /\ SkippedFrame(dt)
    /\ iteration' = "skipped"
    /\ good_reads' = good_reads + 1
    /\ UNCHANGED last_gesture
    /\ UNCHANGED <<spacingVars, gestureVars, dbVars>>

LoopPausedFrame(g, dt) ==
    /\ Running
    /\ PausedFrame(g, dt)
    /\ iteration' = "paused"
    /\ last_gesture' = g
    /\ good_reads' = 0
    /\ UNCHANGED <<spacingVars, gestureVars, dbVars>>

LoopMonitoredFrame(g, d, dt) ==
    /\ Running
    /\ MonitoredFrame(g, d, dt)
    /\ iteration' = "monitored"
    /\ last_gesture' = g
    /\ good_reads' = 0
    /\ UNCHANGED <<spacingVars, gestureVars, dbVars>>

\* a window of two frames, a cooldown of one tick, every frame to every third
\* frame processed
InitLoop ==
    /\ TrackerInit(2, 1)
    /\ \E skip \in 1..3 : AppInit(skip, TRUE)
    /\ BoxesIdle
    /\ ExtrasIdle

NextLoop ==
    \/ \E dt \in ClockSteps : LoopFailedRead(dt)
    \/ \E dt \in ClockSteps : LoopSkippedFrame(dt)
    \/ \E g \in Gestures, dt \in ClockSteps : LoopPausedFrame(g, dt)
    \/ \E g \in Gestures, d \in AppFrames, dt \in ClockSteps : LoopMonitoredFrame(g, d, dt)
    \/ Interrupt

SpecLoop == InitLoop /\ [][NextLoop]_vars

\* ---- GestureDetector.detect_control_gesture on its own -------------------

\* self.cooldown_seconds = 1.0
GestureCooldownSeconds == 1

\* the confidence a control gesture must exceed, 0.5, in percent
ControlConfidence == 50

\* what the recogniser may report for the one tracked hand
Recognitions ==
    {NoHand} \cup
    {[hands |-> 1, hand_label |-> l, gesture_name |-> g, score |-> c] :
        l \in {"Left", "Right"},
        g \in {"Open_Palm", "Closed_Fist", "Victory"},
        c \in {ControlConfidence, 90}}

\* time.time() when the model clock shows t: seconds since the epoch, more
\* than a cooldown away from the 0 that last_gesture_time starts with
TimeTime(t) == t + GestureCooldownSeconds

\* a bug: every recognised frame restarts the cooldown, whatever is returned
DetectControlGestureRestartsOnNone(last, current_time, rec) ==
    IF current_time - last < GestureCooldownSeconds
    THEN [result |-> "none", last_gesture_time |-> last, recognised |-> FALSE]
    ELSE IF rec.hands > 0 /\ rec.hand_label = "Right" /\ rec.score > ControlConfidence
            /\ rec.gesture_name = "Open_Palm"
    THEN [result |-> "start", last_gesture_time |-> current_time, recognised |-> TRUE]
    ELSE IF rec.hands > 0 /\ rec.hand_label = "Right" /\ rec.score > ControlConfidence
            /\ rec.gesture_name = "Closed_Fist"
    THEN [result |-> "stop", last_gesture_time |-> current_time, recognised |-> TRUE]
    ELSE [result |-> "none", last_gesture_time |-> current_time, recognised |-> TRUE]

\* GestureDetector.detect_control_gesture: what it returns, what it leaves in
\* last_gesture_time, and whether it got as far as recognizer.recognize
DetectControlGesture(last, current_time, rec) ==
    IF current_time - last < GestureCooldownSeconds
    THEN [result |-> "none", last_gesture_time |-> last, recognised |-> FALSE]
    ELSE IF rec.hands = 0
    THEN [result |-> "none", last_gesture_time |-> last, recognised |-> TRUE]
    ELSE IF rec.hand_label # "Right"
    THEN [result |-> "none", last_gesture_time |-> last, recognised |-> TRUE]
    ELSE IF rec.score > ControlConfidence
    THEN IF rec.gesture_name = "Open_Palm"
         THEN [result |-> "start", last_gesture_time |-> current_time, recognised |-> TRUE]
         ELSE IF rec.gesture_name = "Closed_Fist"
         THEN [result |-> "stop", last_gesture_time |-> current_time, recognised |-> TRUE]
         ELSE [result |-> "none", last_gesture_time |-> last, recognised |-> TRUE]
    ELSE [result |-> "none", last_gesture_time |-> last, recognised |-> TRUE]

\* one detect_control_gesture(frame) call, the recogniser seeing rec in the
\* frame, the clock having advanced by dt
CallDetectControlGesture(rec, dt) ==
    /\ now + dt <= MaxTime
    /\ now' = now + dt
    /\ recognition' = rec
    /\ \E r \in {DetectControlGesture(last_gesture_time, TimeTime(now + dt), rec)} :
           /\ last_gesture' = r.result
           /\ last_gesture_time' = r.last_gesture_time
           /\ recognised' = r.recognised
           /\ last_control' = IF r.result \in {"start", "stop"}
                              THEN TimeTime(now + dt) ELSE last_control
    /\ UNCHANGED analyzerVars
    /\ UNCHANGED appVars
    /\ UNCHANGED boxVars
    /\ UNCHANGED <<iteration, good_reads>>
    /\ UNCHANGED <<spacingVars, dbVars>>

InitGesture ==
    /\ TrackerInit(1, 0)
    /\ AppInit(1, TRUE)
    /\ BoxesIdle
    /\ ExtrasIdle

NextGesture == \E rec \in Recognitions, dt \in ClockSteps : CallDetectControlGesture(rec, dt)

SpecGesture == InitGesture /\ [][NextGesture]_vars

\* ---- DatabaseManager.add_event on its own --------------------------------

\* the events add_event is given: identifiers that may repeat, two start times
GivenEvents ==
    {[event_id    |-> u,
      start_time  |-> t,
      person_bbox |-> ToList(PersonA.bbox),
      phone_bbox  |-> ToList(PhoneX.bbox),
      frame_count |-> 1] : u \in 1..MaxEvents, t \in {0, MaxTime}}

\* self.db.add_event(event, screenshot_path)
CallAddEvent(event) ==
    /\ n_add_event < MaxEvents + 2
    /\ n_add_event' = n_add_event + 1
    /\ add_arg' = event
    /\ \E r \in {AddEvent(db_rows, event, SaveScreenshot(save_enabled, event))} :
           /\ db_rows' = r.rows
           /\ add_ok' = IF r.ok THEN "True" ELSE "False"
    /\ UNCHANGED trackerVars
    /\ UNCHANGED <<frame_skip, save_enabled, monitoring_paused, loop_frame_count,
                   n_save_screenshot, api_response, thread>>
    /\ UNCHANGED boxVars
    /\ UNCHANGED <<spacingVars, loopVars, gestureVars>>

InitDb ==
    /\ TrackerInit(1, 0)
    /\ \E save \in BOOLEAN : AppInit(1, save)
    /\ BoxesIdle
    /\ ExtrasIdle

NextDb == \E event \in GivenEvents : CallAddEvent(event)

SpecDb == InitDb /\ [][NextDb]_vars

\* ---- properties -----------------------------------------------------------

Called == calls' # calls
Full(h) == Len(h) = temporal_frames
Confirmed(h) == Full(h) /\ AllTrue(h)
EmptyFrame(d) == Len(d.persons) = 0 \/ Len(d.phones) = 0

\* C1: analyze() returns an event only on the call that creates it (no event
\* was active before the call, the returned event is the new active event with
\* a fresh identifier and frame_count 1); every call made while an event is
\* active returns None.
C1_OneNotificationPerEvent ==
    [][Called =>
        /\ (ret' # NoEvent =>
               /\ active_event = NoEvent
               /\ active_event' = ret'
               /\ ret'.event_id = next_uuid
               /\ ret'.frame_count = 1)
        /\ (active_event # NoEvent => ret' = NoEvent)]_vars

\* an event that stayed active over several confirmed frames, the latest call
\* having returned None
C1_Witness ==
    /\ active_event # NoEvent
    /\ active_event.frame_count >= 3
    /\ ret = NoEvent

\* C2: an event is created no earlier than cooldown_seconds after the recorded
\* end of the event before it.
C2_CooldownBetweenEvents ==
    (active_event # NoEvent /\ last_event_time # NoTime)
        => active_event.start_time - last_event_time >= cooldown_seconds

\* a second event is active under a positive cooldown
C2_Witness ==
    /\ active_event # NoEvent
    /\ active_event.event_id >= 2
    /\ last_event_time # NoTime
    /\ cooldown_seconds > 0

\* C3: with an ended event behind and none active, a call that leaves the
\* window full and all true creates an event iff now - last end >= cooldown.
C3_CreatesIffCooldownElapsed ==
    [][(/\ Called
        /\ active_event = NoEvent
        /\ last_event_time # NoTime
        /\ Confirmed(detection_history'))
        => ((ret' # NoEvent /\ active_event' # NoEvent /\ ret'.start_time = now')
               <=> (now' - last_event_time >= cooldown_seconds))]_vars

\* an event created exactly cooldown_seconds after the previous one ended
C3_Witness ==
    /\ ret # NoEvent
    /\ last_event_time # NoTime
    /\ cooldown_seconds > 0
    /\ ret.start_time - last_event_time = cooldown_seconds

\* C4: an event is created only by a call that is the N-th of N consecutive
\* calls that found an overlapping pair.
C4_CreationNeedsNOverlaps ==
    [][(Called /\ (ret' # NoEvent \/ (active_event = NoEvent /\ active_event' # NoEvent)))
        => run_true' = temporal_frames]_vars

\* an event created with N = 3 or more
C4_Witness ==
    /\ ret # NoEvent
    /\ temporal_frames >= 3
    /\ run_true = temporal_frames

\* C5: an active event ends exactly on the N-th consecutive non-overlap call;
\* that call clears it, records the current time and returns None; every other
\* call leaves the same event active and the last end time as it was.
C5_EndsOnNthMiss ==
    [][(Called /\ active_event # NoEvent) =>
        /\ (active_event' = NoEvent <=> run_false' = temporal_frames)
        /\ (active_event' = NoEvent =>
               /\ last_event_time' = now'
               /\ ret' = NoEvent
               /\ ~AnyTrue(detection_history'))
        /\ (active_event' # NoEvent =>
               /\ active_event'.event_id = active_event.event_id
               /\ last_event_time' = last_event_time)]_vars

\* an event has ended after N >= 2 misses in a row
C5_Witness ==
    /\ n_ended >= 1
    /\ active_event = NoEvent
    /\ temporal_frames >= 2
    /\ run_false = temporal_frames
    /\ last_event_time = now

\* C6: frame_count is 1 at creation, grows by exactly 1 on each call that
\* leaves the window full and all true while the event is active, and is
\* unchanged by every other call; the only event the tracker can update is the
\* latest one created, so an ended event is never updated again.
C6_FrameCount ==
    [][Called =>
        /\ (active_event = NoEvent /\ active_event' # NoEvent =>
               active_event'.frame_count = 1)
        /\ (active_event # NoEvent /\ active_event' # NoEvent =>
               /\ active_event'.event_id = active_event.event_id
               /\ active_event'.frame_count =
                      active_event.frame_count
                      + (IF Confirmed(detection_history') THEN 1 ELSE 0))
        /\ (active_event' # NoEvent =>
               active_event'.event_id = next_uuid' - 1)]_vars

\* an event that was counted up and then saw an unconfirmed frame
C6_Witness ==
    /\ active_event # NoEvent
    /\ active_event.frame_count >= 2
    /\ ~AllTrue(detection_history)

\* C7 as stated: every overlap frame during an active event counts.
C7_EveryOverlapFrameCounts ==
    [][(Called /\ active_event # NoEvent /\ active_event' # NoEvent
           /\ FrameHasOverlap(detections'))
        => active_event'.frame_count = active_event.frame_count + 1]_vars

\* C7 amended: an overlap frame during an active event counts exactly when it
\* is the N-th (or later) of consecutive overlap frames; an overlap frame with
\* a miss among the N latest frames leaves frame_count unchanged.
C7_ConsecutiveOverlapFramesCount ==
    [][(Called /\ active_event # NoEvent /\ FrameHasOverlap(detections')) =>
        /\ active_event' # NoEvent
        /\ (run_true' = temporal_frames =>
               active_event'.frame_count = active_event.frame_count + 1)
        /\ (run_true' < temporal_frames =>
               active_event'.frame_count = active_event.frame_count)]_vars

\* an active event just saw an overlap frame that follows a miss
C7_Witness ==
    /\ active_event # NoEvent
    /\ ret = NoEvent
    /\ FrameHasOverlap(detections)
    /\ run_true >= 1
    /\ run_true < temporal_frames

\* C8: event starts and event ends alternate, beginning with a start: the
\* starts are never more than one ahead of the ends, an event is active exactly
\* when they are one ahead, and an event starts no earlier than the end of the
\* one before it.
C8_StartsAndEndsAlternate ==
    /\ n_started - n_ended \in {0, 1}
    /\ (active_event # NoEvent <=> n_started = n_ended + 1)
    /\ (active_event # NoEvent /\ last_event_time # NoTime =>
           active_event.start_time >= last_event_time)

\* a second event has started after the first one ended
C8_Witness ==
    /\ n_started = 2
    /\ n_ended = 1

\* C9: a frame without persons or without phones pushes false into the
\* window, creates no event and returns None.
C9_EmptyFramePushesFalse ==
    [][(Called /\ EmptyFrame(detections')) =>
        LET h == detection_history
            g == detection_history'
        IN  /\ Len(g) = Min(Len(h) + 1, temporal_frames)
            /\ g[Len(g)] = FALSE
            /\ \A i \in 1..(Len(g) - 1) : g[i] = h[i + Len(h) + 1 - Len(g)]
            /\ ret' = NoEvent
            /\ next_uuid' = next_uuid
            /\ active_event' \in {active_event, NoEvent}]_vars

\* a frame with persons but no phone arrived while an event was active
C9_Witness ==
    /\ Len(detections.persons) > 0
    /\ Len(detections.phones) = 0
    /\ active_event # NoEvent
    /\ ~detection_history[Len(detection_history)]

\* C10: for proper boxes _boxes_overlap is true exactly when the intersection
\* has positive area, so boxes sharing only an edge or a corner do not
\* overlap; the result does not depend on the order of the arguments.
C10_OverlapIsPositiveArea ==
    (checked /\ ProperBox(bbox1) /\ ProperBox(bbox2)) =>
        /\ overlap <=> Area(bbox1, bbox2) > 0
        /\ overlap <=> BoxesOverlap(bbox2, bbox1)
        /\ (bbox1 = <<0, 0, 2, 2>> /\ bbox2 = <<2, 0, 3, 2>> => ~overlap)
        /\ (bbox1 = <<0, 0, 1, 1>> /\ bbox2 = <<1, 1, 2, 2>> => ~overlap)
        /\ (bbox1 = <<0, 0, 2, 2>> /\ bbox2 = <<1, 1, 3, 3>> => overlap)

\* two proper boxes that share an edge were compared
C10_Witness ==
    /\ checked
    /\ ProperBox(bbox1) /\ ProperBox(bbox2)
    /\ bbox1[3] = bbox2[1]
    /\ bbox1[2] < bbox2[4] /\ bbox1[4] > bbox2[2]
    /\ ~overlap

ZeroArea(b) == b[1] = b[3] \/ b[2] = b[4]

\* C11: _boxes_overlap returns false whenever one of the two boxes has zero
\* area.
C11_ZeroAreaNeverOverlaps ==
    (checked /\ (ZeroArea(bbox1) \/ ZeroArea(bbox2))) => ~overlap

Last(h) == h[Len(h)]

\* the window g is the window h after one push
Shifted(h, g) ==
    \A i \in 1..(Len(g) - 1) : g[i] = h[i + Len(h) + 1 - Len(g)]

\* the (person, phone) index pairs of a frame whose boxes intersect with
\* positive area
PositivePairs(d) ==
    {p \in (1..Len(d.persons)) \X (1..Len(d.phones)) :
        Area(d.persons[p[1]].bbox, d.phones[p[2]].bbox) > 0}

\* the (person, phone) index pairs of a frame that pass the pairwise test
TestedPairs(d) ==
    {p \in (1..Len(d.persons)) \X (1..Len(d.phones)) :
        BoxesOverlap(d.persons[p[1]].bbox, d.phones[p[2]].bbox)}

ProperFrame(d) ==
    /\ \A i \in 1..Len(d.persons) : ProperBox(d.persons[i].bbox)
    /\ \A j \in 1..Len(d.phones) : ProperBox(d.phones[j].bbox)

\* C12: analyze() pushes true exactly when some (person, phone) pair of the
\* frame passes the pairwise overlap test, and false otherwise; for frames of
\* proper boxes that is exactly when some pair intersects with positive area.
C12_PushesTrueIffSomePairOverlaps ==
    [][Called =>
        /\ Len(detection_history') >= 1
        /\ Last(detection_history') <=> TestedPairs(detections') # {}
        /\ ProperFrame(detections') =>
               (Last(detection_history') <=> PositivePairs(detections') # {})]_vars

\* true was pushed for a frame whose first person and first phone do not overlap
C12_Witness ==
    /\ Len(detections.persons) = 2
    /\ Len(detections.phones) = 2
    /\ <<1, 1>> \notin PositivePairs(detections)
    /\ Len(detection_history) >= 1
    /\ Last(detection_history)

\* C13: the boxes recorded in a new event are those of the first overlapping
\* pair in person-major order: no overlapping pair has a lower person index,
\* or the same person index and a lower phone index.
C13_FirstPairInPersonMajorOrder ==
    [][(Called /\ ret' # NoEvent) =>
        \E p \in PositivePairs(detections') :
            /\ ret'.person_bbox = detections'.persons[p[1]].bbox
            /\ ret'.phone_bbox = detections'.phones[p[2]].bbox
            /\ \A q \in PositivePairs(detections') :
                   ~(q[1] < p[1] \/ (q[1] = p[1] /\ q[2] < p[2]))]_vars

\* an event was created from a frame with several overlapping pairs, one of
\* them more confident than the pair recorded
C13_Witness ==
    /\ ret # NoEvent
    /\ Cardinality(PositivePairs(detections)) >= 2
    /\ ret.person_bbox = detections.persons[1].bbox
    /\ ret.phone_bbox = detections.phones[2].bbox
    /\ \E q \in PositivePairs(detections) :
           detections.persons[q[1]].confidence + detections.phones[q[2]].confidence
             > detections.persons[1].confidence + detections.phones[2].confidence

\* C14 as stated: with an all-false window (of any length, one entry or more)
\* and no active event, a non-overlap call leaves window, active event and
\* last end time unchanged.
C14_IdleCallChangesNothing ==
    [][(/\ Called
        /\ PositivePairs(detections') = {}
        /\ Len(detection_history) >= 1
        /\ ~AnyTrue(detection_history)
        /\ active_event = NoEvent)
        => /\ detection_history' = detection_history
           /\ active_event' = active_event
           /\ last_event_time' = last_event_time]_vars

\* C14 amended: a non-overlap call never creates an event and never raises;
\* with a full all-false window and no active event it leaves window, active
\* event and last end time unchanged.
C14_FullIdleCallChangesNothing ==
    [][(Called /\ PositivePairs(detections') = {}) =>
        /\ ret' = NoEvent
        /\ next_uuid' = next_uuid
        /\ active_event' \in {active_event, NoEvent}
        /\ ~raised'
        /\ (/\ Full(detection_history)
            /\ ~AnyTrue(detection_history)
            /\ active_event = NoEvent)
            => /\ detection_history' = detection_history
               /\ active_event' = active_event
               /\ last_event_time' = last_event_time]_vars

\* non-overlap frames keep arriving, the clock has moved on since an event
\* ended and the recorded end time is still that of the event
C14_Witness ==
    /\ n_ended >= 1
    /\ active_event = NoEvent
    /\ Full(detection_history)
    /\ ~AnyTrue(detection_history)
    /\ PositivePairs(detections) = {}
    /\ last_event_time < now

\* C15: after k calls the window holds min(k, N) entries, never more than N;
\* each call pushes its overlap outcome at the end and keeps the earlier
\* entries in order, evicting the oldest once full; a full window stays full.
C15_WindowHoldsLastOutcomes ==
    [][Called =>
        /\ Len(detection_history') = n_calls'
        /\ Len(detection_history') <= temporal_frames
        /\ Last(detection_history') <=> PositivePairs(detections') # {}
        /\ Shifted(detection_history, detection_history')
        /\ (Full(detection_history) => Full(detection_history'))]_vars

\* a full window with mixed contents after an event has ended
C15_Witness ==
    /\ n_ended >= 1
    /\ temporal_frames >= 2
    /\ Full(detection_history)
    /\ AnyTrue(detection_history)
    /\ ~AllTrue(detection_history)

\* C16: a new event carries the time of the creating call, a fresh identifier
\* and the boxes of an overlapping pair of that call's frame; later calls
\* leave identifier, start_time and both boxes of the active event unchanged.
C16_EventFieldsFixedAtCreation ==
    [][Called =>
        /\ (ret' # NoEvent =>
               /\ ret'.start_time = now'
               /\ ret'.event_id = next_uuid
               /\ \E p \in PositivePairs(detections') :
                      /\ ret'.person_bbox = detections'.persons[p[1]].bbox
                      /\ ret'.phone_bbox = detections'.phones[p[2]].bbox)
        /\ (active_event # NoEvent /\ active_event' # NoEvent =>
               /\ active_event'.event_id = active_event.event_id
               /\ active_event'.start_time = active_event.start_time
               /\ active_event'.person_bbox = active_event.person_bbox
               /\ active_event'.phone_bbox = active_event.phone_bbox)]_vars

\* an event was counted up by a later frame whose overlapping pairs do not
\* include the recorded one
C16_Witness ==
    /\ active_event # NoEvent
    /\ active_event.frame_count >= 2
    /\ active_event.start_time < now
    /\ Confirmed(detection_history)
    /\ \A p \in PositivePairs(detections) :
           detections.persons[p[1]].bbox # active_event.person_bbox

\* C17: an overlap call that is not the N-th of N consecutive overlap calls,
\* or that falls inside the cooldown, returns None and leaves the active
\* event and the last end time unchanged; the cooldown suppresses also when
\* no event is active.
C17_SuppressedCallChangesOnlyWindow ==
    [][(/\ Called
        /\ PositivePairs(detections') # {}
        /\ \/ run_true' < temporal_frames
           \/ (last_event_time # NoTime /\ now' - last_event_time < cooldown_seconds))
        => /\ ret' = NoEvent
           /\ active_event' = active_event
           /\ last_event_time' = last_event_time
           /\ next_uuid' = next_uuid]_vars

\* a confirmed overlap was suppressed by the cooldown with no event active
C17_Witness ==
    /\ active_event = NoEvent
    /\ Confirmed(detection_history)
    /\ last_event_time # NoTime
    /\ now - last_event_time < cooldown_seconds

\* C20: analyze() never raises, for empty lists, one or several detections and
\* degenerate boxes alike; it returns None or the event it has just created.
C20_AnalyzeIsTotal ==
    /\ ~raised
    /\ \/ ret = NoEvent
       \/ (ret = active_event /\ ret.event_id >= 1 /\ ret.frame_count = 1)

\* a frame with a zero-area box was analysed and started an event
C20_Witness ==
    /\ detections \in DegenerateFrames
    /\ ret # NoEvent
    /\ ~raised

\* C18: a screenshot is saved and a row is inserted exactly on the loop
\* iterations in which analyze() returns an event, once each, with the event
\* as returned (frame_count 1); no other step writes, so the numbers of
\* save_screenshot calls, add_event calls and rows equal the number of events
\* started.
C18_PersistOnEventStartOnly ==
    [][LET started == Called /\ ret' # NoEvent
       IN  /\ n_save_screenshot' = n_save_screenshot + (IF started THEN 1 ELSE 0)
           /\ n_add_event' = n_add_event + (IF started THEN 1 ELSE 0)
           /\ started =>
                  /\ Len(db_rows') = Len(db_rows) + 1
                  /\ SubSeq(db_rows', 1, Len(db_rows)) = db_rows
                  /\ Last(db_rows').event_uuid = ret'.event_id
                  /\ Last(db_rows').timestamp = ret'.start_time
                  /\ Last(db_rows').frame_count = 1
           /\ ~started => db_rows' = db_rows
           /\ n_add_event' = n_started'
           /\ Len(db_rows') = n_started']_vars

\* one event was started, counted up and ended: one screenshot, one row
C18_Witness ==
    /\ n_ended = 1
    /\ n_save_screenshot = 1
    /\ n_add_event = 1
    /\ Len(db_rows) = 1
    /\ db_rows[1].frame_count = 1

\* C19: a step of the API thread leaves the analyzer's window, active event
\* and last end time as they are and answers from the events table alone;
\* every change of the analyzer's state is one analyze() call of the main
\* loop.
C19_OnlyMainLoopTouchesAnalyzer ==
    [][/\ thread' = "api" =>
              /\ UNCHANGED <<detection_history, active_event, last_event_time,
                             next_uuid, temporal_frames, cooldown_seconds>>
              /\ ~Called
              /\ \A e \in api_response' : \E i \in 1..Len(db_rows) :
                     /\ db_rows[i].event_uuid = e.event_id
                     /\ db_rows[i].timestamp = e.timestamp
                     /\ db_rows[i].frame_count = e.frame_count
       /\ (\/ detection_history' # detection_history
           \/ active_event' # active_event
           \/ last_event_time' # last_event_time)
              => (thread' = "main" /\ Called)]_vars

\* the API answered while an event was in progress and already counted up
C19_Witness ==
    /\ thread = "api"
    /\ api_response # {}
    /\ active_event # NoEvent
    /\ active_event.frame_count >= 2

\* C22: last_event_time is None until the first event ends, so the first
\* confirmed call always creates; a call changes it only by ending the active
\* event, to the time of that call; creating an event or counting a frame
\* leaves it alone; it never decreases.
C22_LastEndWrittenOnlyByTermination ==
    [][/\ (n_ended = 0 => last_event_time = NoTime)
       /\ (n_ended' = 0 => last_event_time' = NoTime)
       /\ (last_event_time' # last_event_time =>
              /\ Called
              /\ active_event # NoEvent
              /\ active_event' = NoEvent
              /\ last_event_time' = now')
       /\ ((Called /\ active_event # NoEvent /\ active_event' = NoEvent)
              => last_event_time' = now')
       /\ ((Called /\ active_event' # NoEvent) => last_event_time' = last_event_time)
       /\ last_event_time' >= last_event_time
       /\ ((Called /\ n_ended = 0 /\ active_event = NoEvent
                   /\ Confirmed(detection_history'))
              => (ret' # NoEvent /\ active_event' = ret'))]_vars

\* a second event was created and counted up after the first one ended at an
\* earlier time
C22_Witness ==
    /\ n_ended = 1
    /\ active_event # NoEvent
    /\ active_event.frame_count >= 2
    /\ last_event_time # NoTime
    /\ last_event_time < active_event.start_time

\* C23: while an event is active the cooldown has elapsed (now - last end >=
\* cooldown_seconds whenever an end is recorded), so a confirmed call made
\* while an event is active always counts the frame and returns None.
C23_NoCooldownWhileActive ==
    [][/\ ((active_event # NoEvent /\ last_event_time # NoTime)
              => now - last_event_time >= cooldown_seconds)
       /\ ((active_event' # NoEvent /\ last_event_time' # NoTime)
              => now' - last_event_time' >= cooldown_seconds)
       /\ ((Called /\ active_event # NoEvent /\ Confirmed(detection_history'))
              => /\ active_event' = [active_event EXCEPT !.frame_count = @ + 1]
                 /\ ret' = NoEvent)]_vars

\* a frame was counted for an event created right at the end of a positive
\* cooldown, the clock standing still since
C23_Witness ==
    /\ active_event # NoEvent
    /\ active_event.frame_count >= 2
    /\ last_event_time # NoTime
    /\ cooldown_seconds > 0
    /\ now - last_event_time = cooldown_seconds

\* C24: with no event active, a call that leaves the window full and all true
\* outside the cooldown creates the event, stamped with the time of that call
\* and frame_count 1; a call suppressed by the cooldown still records its
\* overlap, so the window stays all true; hence, once every frame holds an
\* overlap and the clock advances, an event becomes active.
C24_SustainedOverlapCreates ==
    /\ [][/\ ((/\ Called
               /\ active_event = NoEvent
               /\ Confirmed(detection_history')
               /\ (last_event_time = NoTime \/ now' - last_event_time >= cooldown_seconds))
                 => /\ ret' # NoEvent
                    /\ active_event' = ret'
                    /\ ret'.start_time = now'
                    /\ ret'.frame_count = 1)
          /\ ((Called /\ sustained /\ active_event = NoEvent /\ ret' = NoEvent)
                 => /\ detection_history' =
                           DequeAppend(detection_history, TRUE, temporal_frames)
                    /\ last_event_time' = last_event_time
                    /\ active_event' = NoEvent)]_vars
    /\ (sustained ~> active_event # NoEvent)

\* under sustained overlap an event was created as soon as a positive
\* cooldown had elapsed, after a suppressed call
C24_Witness ==
    /\ sustained
    /\ ret # NoEvent
    /\ cooldown_seconds > 0
    /\ last_event_time # NoTime
    /\ ret.start_time - last_event_time = cooldown_seconds
    /\ run_true = temporal_frames

\* C25: the call that ends an event is at least the N-th call after the one
\* that created it and leaves a full, all-false window; the call that creates
\* an event is at least the N-th call after the one that ended the previous
\* event and leaves a full, all-true window.
C25_MinimumSpacingInCalls ==
    [][Called =>
        /\ ((active_event # NoEvent /\ active_event' = NoEvent)
               => /\ since_start + 1 >= temporal_frames
                  /\ Full(detection_history')
                  /\ ~AnyTrue(detection_history'))
        /\ (ret' # NoEvent
               => /\ (n_ended >= 1 => since_end + 1 >= temporal_frames)
                  /\ Confirmed(detection_history'))]_vars

\* with a window of at least two frames, a second event was created by the
\* N-th call after the one that ended the first
C25_Witness ==
    /\ temporal_frames >= 2
    /\ ret # NoEvent
    /\ ret.event_id = 2
    /\ n_ended = 1
    /\ since_end = temporal_frames
    /\ since_start = 0

Processed == thread' = "main" /\ iteration' \in {"paused", "monitored"}

\* C21: when the loop is interrupted, cleanup ends no event, records no end
\* time and writes neither a screenshot nor a row; the rows keep the
\* frame_count 1 they were inserted with, whatever the active event has
\* counted since.
C21_ActiveEventAbandonedAtShutdown ==
    /\ [][(iteration' = "cleanup" /\ iteration # "cleanup")
              => UNCHANGED <<active_event, last_event_time, detection_history,
                             n_ended, db_rows, n_save_screenshot, n_add_event>>]_vars
    /\ [](\A i \in 1..Len(db_rows) : db_rows[i].frame_count = 1)

\* the loop was left while an event that had counted further frames was
\* active; its row still says frame_count 1
C21_Witness ==
    /\ iteration = "cleanup"
    /\ active_event # NoEvent
    /\ active_event.frame_count >= 2
    /\ last_event_time = NoTime
    /\ \E i \in 1..Len(db_rows) :
           /\ db_rows[i].event_uuid = active_event.event_id
           /\ db_rows[i].frame_count = 1

\* C26: a frame processed while monitoring is (or becomes) paused makes no
\* analyze() call and leaves the window, the active event and the last end
\* time as they are, a stop gesture included; the first call after a resume
\* appends its outcome to the window as the pause left it, so the overlaps
\* recorded before the pause count toward the N needed.
C26_PauseFreezesTracker ==
    [][/\ ((thread' = "main" /\ iteration' = "paused")
              => /\ ~Called
                 /\ monitoring_paused'
                 /\ UNCHANGED <<detection_history, active_event, last_event_time,
                                next_uuid, n_ended>>)
       /\ ((Called /\ monitoring_paused)
              => /\ last_gesture' = "start"
                 /\ detection_history' =
                        DequeAppend(detection_history, FrameHasOverlap(detections'),
                                    temporal_frames)
                 /\ ((/\ active_event = NoEvent
                      /\ last_event_time = NoTime
                      /\ detection_history = <<TRUE>>
                      /\ FrameHasOverlap(detections'))
                        => ret' # NoEvent))]_vars

\* a stop gesture paused the monitoring while an event was active: the event
\* is still active, its window still all true, and no end time is recorded
C26_Witness ==
    /\ iteration = "paused"
    /\ last_gesture = "stop"
    /\ monitoring_paused
    /\ active_event # NoEvent
    /\ AllTrue(detection_history)
    /\ last_event_time = NoTime

\* C27: monitoring starts paused; on a processed frame "start" makes it
\* active, "stop" makes it paused and no gesture leaves it as it is, and
\* nothing else changes it; a frame processed with monitoring paused makes no
\* analyze() call, no screenshot and no database write, so none happens
\* before the first "start".
C27_MonitoringToggledOnlyByGestures ==
    /\ [](iteration = "none" => (monitoring_paused /\ n_calls = 0 /\ db_rows = <<>>))
    /\ [][/\ (Processed =>
                 /\ (last_gesture' = "start" => ~monitoring_paused')
                 /\ (last_gesture' = "stop" => monitoring_paused')
                 /\ (last_gesture' = "none" => monitoring_paused' = monitoring_paused))
          /\ (monitoring_paused' # monitoring_paused =>
                 (Processed /\ last_gesture' \in {"start", "stop"}))
          /\ ((thread' = "main" /\ monitoring_paused') =>
                 /\ ~Called
                 /\ UNCHANGED <<ret, n_started, db_rows, n_save_screenshot, n_add_event>>)
          /\ (Called => (iteration' = "monitored" /\ ~monitoring_paused'))]_vars

\* monitoring was started, an event was stored, and a stop gesture paused it
\* again
C27_Witness ==
    /\ monitoring_paused
    /\ iteration = "paused"
    /\ last_gesture = "stop"
    /\ n_add_event = 1
    /\ Len(db_rows) = 1

\* C29: a failed read advances neither the skip counter nor the number of
\* frames read; a frame is processed (gesture detector, then the tracker if
\* monitoring is active) exactly when it is the frame_skip-th frame read
\* since the latest processed one, and is skipped otherwise; analyze() is
\* called only on processed frames, once.
C29_SamplingUpstreamOfTracker ==
    [][thread' = "main" =>
        /\ (iteration' = "failed" =>
               /\ loop_frame_count' = loop_frame_count
               /\ good_reads' = good_reads
               /\ ~Called
               /\ UNCHANGED <<last_gesture, monitoring_paused>>)
        /\ (iteration' = "skipped" =>
               /\ good_reads + 1 < frame_skip
               /\ ~Called
               /\ UNCHANGED <<last_gesture, monitoring_paused>>)
        /\ (iteration' \in {"paused", "monitored"} => good_reads + 1 = frame_skip)
        /\ (Called => (iteration' = "monitored" /\ n_calls' = Min(n_calls + 1, temporal_frames)))
        /\ (iteration' = "monitored" => Called)]_vars

\* with every third frame processed: two frames were read and skipped, a read
\* failed, and the analyzer has been called before
C29_Witness ==
    /\ frame_skip = 3
    /\ iteration = "failed"
    /\ good_reads = 2
    /\ n_calls >= 1

\* C28: a call made less than one second after the latest call that returned
\* "start" or "stop" returns None without running the recogniser; a call that
\* returns None leaves last_gesture_time alone, so a call made a second or
\* more after the latest control gesture always runs the recogniser.
C28_GestureCooldown ==
    [][/\ ((last_control # NoTime
              /\ TimeTime(now') < last_control + GestureCooldownSeconds)
             => (last_gesture' = "none" /\ ~recognised'))
       /\ (last_gesture' = "none" => last_gesture_time' = last_gesture_time)
       /\ (last_gesture' \in {"start", "stop"} => last_gesture_time' = TimeTime(now'))
       /\ ((last_control # NoTime
              /\ TimeTime(now') >= last_control + GestureCooldownSeconds)
             => recognised')
       /\ (last_control = NoTime => recognised')]_vars

\* after a control gesture, a low-confidence right-hand palm was recognised
\* and returned None; the cooldown still counts from the control gesture
C28_Witness ==
    /\ last_control # NoTime
    /\ recognised
    /\ last_gesture = "none"
    /\ recognition.hand_label = "Right"
    /\ recognition.gesture_name = "Open_Palm"
    /\ recognition.score = ControlConfidence
    /\ last_gesture_time = last_control
    /\ TimeTime(now) = last_control + GestureCooldownSeconds

\* C30: add_event given an event_uuid that is already stored returns False
\* and leaves the rows exactly as they were; otherwise it returns True and
\* appends one row for the event; either way nothing is raised and the
\* analyzer's state is as before.
C30_FailedInsertLeavesRowsUnchanged ==
    [][n_add_event' # n_add_event =>
        LET dup == \E i \in 1..Len(db_rows) : db_rows[i].event_uuid = add_arg'.event_id
        IN  /\ (dup => (add_ok' = "False" /\ db_rows' = db_rows))
            /\ (~dup =>
                   /\ add_ok' = "True"
                   /\ Len(db_rows') = Len(db_rows) + 1
                   /\ SubSeq(db_rows', 1, Len(db_rows)) = db_rows
                   /\ Last(db_rows').event_uuid = add_arg'.event_id
                   /\ Last(db_rows').timestamp = add_arg'.start_time)
            /\ ~raised'
            /\ UNCHANGED <<detection_history, active_event, last_event_time, next_uuid>>
            /\ \A i, j \in 1..Len(db_rows') :
                   db_rows'[i].event_uuid = db_rows'[j].event_uuid => i = j]_vars

\* an insert with a stored event_uuid but another start time was refused; the
\* stored row is the old one
C30_Witness ==
    /\ add_ok = "False"
    /\ Len(db_rows) = 2
    /\ \E i \in 1..Len(db_rows) :
           /\ db_rows[i].event_uuid = add_arg.event_id
           /\ db_rows[i].timestamp # add_arg.start_time

====
